---- MODULE Spec2Model ----
(***************************************************************************)
(* A model of the ferrumc core: the generational entity allocator and     *)
(* world of src/ecs/world.rs, the chunk store of src/database/chunks.rs    *)
(* the keep-alive system of src/net/systems/keep_alive_system.rs, the       *)
(* systems runtime of src/net/systems/mod.rs and the status handler of     *)
(* src/net/packets/incoming/status.rs.                                     *)
(***************************************************************************)
EXTENDS Integers, Sequences, FiniteSets, TLC

\* ------------------------------------------------------------------ bounds
\* Ids the allocator may hand out: next_id stays below MaxIds.
MaxIds == 2
\* Generations are capped: an id is freed at most MaxGen times.
MaxGen == 2
\* Chunk coordinates are -1..MaxCoord.
MaxCoord == 0
\* The rest of a chunk record (sections, heightmaps, ...) is one of 1..MaxData.
MaxData == 2
\* Writes (insert_chunk, update_chunk) a behaviour may start.
MaxWrites == 2
\* Concurrent tasks that call the chunk store.
NTasks == 2
\* Time is counted in units of 1/UnitsPerSec second.
UnitsPerSec == 2
\* The clock stops at MaxSecs seconds.
MaxSecs == 62
\* Connections a behaviour may accept.
MaxConns == 2
\* KeepAlive.data is capped: the sender waits once a counter is at the cap.
MaxKeepAlive == 2
\* config.max_players is one of 0..MaxPlayers.
MaxPlayers == 2
\* StatusRequests a connection may send.
MaxRequests == 2

\* ------------------------------------------------------------------ constants of the code
\* tokio::time::interval of the sender, in seconds
SenderPeriod == 15
\* tokio::time::interval of the receiver, in seconds
ReaperPeriod == 5
\* the receiver drops a connection whose last_sent is more than this many
\* whole seconds old
Timeout == 30

VARIABLES
    next_id,            \* EntityAllocator.next_id
    generations,        \* EntityAllocator.generations, a sequence; id i is at i+1
    free_ids,           \* EntityAllocator.free_ids, a stack (top is the last element)
    component_storage,  \* World.component_storage: column -> (id -> value)
    issued,             \* history: the handles allocate_entity has returned
    deallocated,        \* history: the handles deallocated with success
    freed,              \* history: per id the handle of its last deallocation, oldest first
    wop,                \* the last world operation: [op, e, ret, removed, fresh]
    db,                 \* Database.db: tree name -> (record key -> bytes)
    task,               \* the tasks calling the chunk store, each at a step of its call
    written,            \* history: <<dimension, x, z>> -> the chunk of the last write that reached the store
    nwrites,            \* history: the writes started
    now,                \* the clock (Instant::now), in units
    connections,        \* the connection table: the ids drop_conn can find
    conn,               \* the connections accepted, by id: [entity, open, alive]
    sender,             \* KeepAliveSystem::sender: [pc, next, batch, held, result of the send just made]
    reaper,             \* KeepAliveSystem::receiver: [pc, next, todo, entity, conn_id, held]
    log,                \* the last error!/warn! line: [level, what, conn]
    sent,               \* history: per player in the store, by connection, the data of its last keep-alive send
    sys,                \* the registered systems: name -> [status, stop]
    starter,            \* start_all_systems: [pc, i]
    killer,             \* kill_all_systems: [pc, i]
    config,             \* the global configuration: [max_players]
    sconn               \* a connection in Handshake or Status: [state, protocol_version, socket, handled, ret]

wvars == <<next_id, generations, free_ids, component_storage, issued,
          deallocated, freed, wop>>

dbvars == <<db, task, written, nwrites>>

kavars == <<now, connections, conn, sender, reaper, log, sent>>

sysvars == <<sys, starter, killer>>

stvars == <<config, sconn>>

vars == <<next_id, generations, free_ids, component_storage, issued,
          deallocated, freed, wop,
          db, task, written, nwrites,
          now, connections, conn, sender, reaper, log, sent,
          sys, starter, killer,
          config, sconn>>

\* ------------------------------------------------------------------ helpers
Range(s) == {s[i] : i \in 1..Len(s)}

\* Entity::new
Entity(id, generation) == [id |-> id, generation |-> generation]

\* Entity values: Entity::new and Entity::default build handles the allocator
\* never returned.
Handles == [id : 0..MaxIds, generation : 0..MaxGen]

Columns == {"Player", "KeepAlive"}

NoEntity == Entity(0 - 1, 0 - 1)

\* ------------------------------------------------------------------ ComponentStorage
\* ComponentStorage::new: every column empty.
EmptyStorage == [c \in Columns |-> <<>>]

\* ComponentStorage::insert: the value of the column at the entity's id is
\* overwritten.
StorageInsert(st, entity, col, val) ==
    [st EXCEPT ![col] =
        [i \in (DOMAIN st[col]) \cup {entity.id} |->
            IF i = entity.id THEN val ELSE st[col][i]]]

\* ComponentStorage::remove_all: the slot of the entity's id is cleared in
\* every column (the entity converts to its id alone).
remove_all(st, entity) ==
    [c \in DOMAIN st |-> [i \in (DOMAIN st[c]) \ {entity.id} |-> st[c][i]]]

\* The ids that hold a value in some column.
StoredIds(st) == UNION {DOMAIN st[c] : c \in DOMAIN st}

\* ------------------------------------------------------------------ EntityAllocator
\* A plausible slip: the free pool used as a queue.
allocate_entity_fifo(nid, gens, free) ==
    IF free # <<>>
    THEN LET id == free[1]
         IN  [entity |-> Entity(id, gens[id + 1]), next_id |-> nid,
              generations |-> gens, free_ids |-> Tail(free)]
    ELSE [entity |-> Entity(nid, 0), next_id |-> nid + 1,
          generations |-> IF nid >= Len(gens) THEN Append(gens, 0) ELSE gens,
          free_ids |-> free]

\* A plausible slip: next_id read and not advanced.
allocate_entity_noinc(nid, gens, free) ==
    IF free # <<>>
    THEN LET id == free[Len(free)]
         IN  [entity |-> Entity(id, gens[id + 1]), next_id |-> nid,
              generations |-> gens, free_ids |-> SubSeq(free, 1, Len(free) - 1)]
    ELSE [entity |-> Entity(nid, 0), next_id |-> nid,
          generations |-> IF nid >= Len(gens) THEN Append(gens, 0) ELSE gens,
          free_ids |-> free]

\* EntityAllocator::allocate_entity
allocate_entity(nid, gens, free) ==
    IF free # <<>>
    THEN LET id == free[Len(free)]
         IN  [entity |-> Entity(id, gens[id + 1]), next_id |-> nid,
              generations |-> gens, free_ids |-> SubSeq(free, 1, Len(free) - 1)]
    ELSE [entity |-> Entity(nid, 0), next_id |-> nid + 1,
          generations |-> IF nid >= Len(gens) THEN Append(gens, 0) ELSE gens,
          free_ids |-> free]

\* A plausible slip: the generation check left out.
deallocate_nocheck(gens, free, entity) ==
    IF entity.id >= Len(gens)
    THEN [ret |-> "EntityNotFound", generations |-> gens, free_ids |-> free]
    ELSE [ret |-> "Ok",
          generations |-> [gens EXCEPT ![entity.id + 1] = @ + 1],
          free_ids |-> Append(free, entity.id)]

\* A plausible slip: the generation left as it is on a deallocation.
deallocate_nobump(gens, free, entity) ==
    IF entity.id >= Len(gens)
    THEN [ret |-> "EntityNotFound", generations |-> gens, free_ids |-> free]
    ELSE IF gens[entity.id + 1] # entity.generation
    THEN [ret |-> "InvalidGeneration", generations |-> gens, free_ids |-> free]
    ELSE [ret |-> "Ok", generations |-> gens,
          free_ids |-> Append(free, entity.id)]

\* EntityAllocator::deallocate
deallocate(gens, free, entity) ==
    IF entity.id >= Len(gens)
    THEN [ret |-> "EntityNotFound", generations |-> gens, free_ids |-> free]
    ELSE IF gens[entity.id + 1] # entity.generation
    THEN [ret |-> "InvalidGeneration", generations |-> gens, free_ids |-> free]
    ELSE [ret |-> "Ok",
          generations |-> [gens EXCEPT ![entity.id + 1] = @ + 1],
          free_ids |-> Append(free, entity.id)]

\* ------------------------------------------------------------------ World
\* The components a builder may insert: a set of columns. The value put in a
\* column is arbitrary data of the caller; the model lets it name the entity
\* it was inserted for.
Builds == SUBSET Columns

\* EntityBuilder::with, once per column the builder names.
RECURSIVE WithAll(_, _, _, _)
WithAll(st, entity, comps, cols) ==
    IF cols = {} THEN st
    ELSE LET c == CHOOSE x \in cols : TRUE
             st1 == IF c \notin comps THEN st
                    ELSE StorageInsert(st, entity, c, entity)
         IN  WithAll(st1, entity, comps, cols \ {c})

\* History: a successful deallocation is recorded.
NoteFreed(ret, entity) ==
    IF ret = "Ok"
    THEN /\ deallocated' = deallocated \cup {entity}
         /\ freed' = Append(SelectSeq(freed, LAMBDA h : h.id # entity.id),
                            entity)
    ELSE UNCHANGED <<deallocated, freed>>

\* World::create_entity, EntityBuilder::with and EntityBuilder::build: the
\* builder borrows the storage exclusively from allocation to build.
CreateEntity(comps) ==
    /\ free_ids # <<>> \/ next_id < MaxIds
    /\ LET a == allocate_entity(next_id, generations, free_ids)
       IN  /\ next_id' = a.next_id
           /\ generations' = a.generations
           /\ free_ids' = a.free_ids
           /\ component_storage' =
                  WithAll(component_storage, a.entity, comps, Columns)
           /\ issued' = issued \cup {a.entity}
           /\ wop' = [op |-> "create", e |-> a.entity, ret |-> "Ok",
                     removed |-> FALSE, fresh |-> free_ids = <<>>]
    /\ UNCHANGED <<deallocated, freed>>

\* A plausible slip: the components are left in place.
DeleteEntityNoRemove(entity) ==
    /\ deallocate(generations, free_ids, entity).ret = "Ok" =>
           generations[entity.id + 1] < MaxGen
    /\ LET d == deallocate(generations, free_ids, entity)
       IN  /\ generations' = d.generations
           /\ free_ids' = d.free_ids
           /\ NoteFreed(d.ret, entity)
           /\ wop' = [op |-> "delete", e |-> entity, ret |-> d.ret,
                     removed |-> FALSE, fresh |-> FALSE]
    /\ UNCHANGED <<next_id, issued, component_storage>>

\* World::delete_entity: remove_all first, then deallocate.
DeleteEntity(entity) ==
    /\ deallocate(generations, free_ids, entity).ret = "Ok" =>
           generations[entity.id + 1] < MaxGen
    /\ component_storage' = remove_all(component_storage, entity)
    /\ LET d == deallocate(generations, free_ids, entity)
       IN  /\ generations' = d.generations
           /\ free_ids' = d.free_ids
           /\ NoteFreed(d.ret, entity)
           /\ wop' = [op |-> "delete", e |-> entity, ret |-> d.ret,
                     removed |-> entity.id \in StoredIds(component_storage),
                     fresh |-> FALSE]
    /\ UNCHANGED <<next_id, issued>>

\* The handles callers pass to delete_entity: any handle, since Entity::new
\* is public; those the allocator returned, and handles built elsewhere,
\* be they out of bounds, stale, or naming the current generation of an id.
DeleteInputs == Handles

\* World::new
WorldInit ==
    /\ next_id = 0
    /\ generations = <<>>
    /\ free_ids = <<>>
    /\ component_storage = EmptyStorage
    /\ issued = {}
    /\ deallocated = {}
    /\ freed = <<>>
    /\ wop = [op |-> "none", e |-> NoEntity, ret |-> "Ok", removed |-> FALSE,
              fresh |-> FALSE]

\* ------------------------------------------------------------------ chunk records
Coords == (0 - 1)..MaxCoord

Dims == {"overworld", "nether"}

\* Chunk: x_pos, z_pos and the rest of the record.
Chunks == [x_pos : Coords, z_pos : Coords, data : 1..MaxData]

NoChunk == [x_pos |-> 0, z_pos |-> 0, data |-> 0]

\* Results: Option and the Ok values of the store's operations.
None == [tag |-> "None"]
Some(v) == [tag |-> "Some", val |-> v]
OkBool(b) == [tag |-> "Bool", val |-> b]
OkList(l) == [tag |-> "List", val |-> l]
Pending == [tag |-> "Pending"]

Digit == <<"0", "1", "2", "3", "4", "5", "6", "7", "8", "9">>

\* Display of an unsigned integer: its decimal digits.
RECURSIVE FmtNat(_)
FmtNat(n) ==
    IF n < 10 THEN Digit[n + 1] ELSE FmtNat(n \div 10) \o Digit[(n % 10) + 1]

\* Display of an i32: a minus sign for a negative value, then the digits.
FmtInt(i) == IF i < 0 THEN "-" \o FmtNat(0 - i) ELSE FmtNat(i)

\* format!("{},{}", x, z)
record_name(x, z) == FmtInt(x) \o "," \o FmtInt(z)

\* format!("chunks/{}", dimension)
tree_name(dimension) == "chunks/" \o dimension

\* Chunk::serialize into a flexbuffer: a self-describing map, keys in order.
Encode(c) ==
    << <<"data", c.data>>, <<"x_pos", c.x_pos>>, <<"z_pos", c.z_pos>> >>

\* The value under a key of an encoded map.
Field(bytes, name) ==
    LET k == CHOOSE i \in 1..Len(bytes) : bytes[i][1] = name IN bytes[k][2]

\* Chunk::deserialize from a flexbuffer root.
Decode(bytes) ==
    [x_pos |-> Field(bytes, "x_pos"), z_pos |-> Field(bytes, "z_pos"),
     data |-> Field(bytes, "data")]

\* ------------------------------------------------------------------ the KV engine
\* The trees the store is asked for. A tree never opened and a tree opened
\* and empty hold the same records: db maps each name to its records.
TreeNames == {"chunks"} \cup {tree_name(d) : d \in Dims}

\* Db::open_tree: the tree of that name, created when it does not exist.
open_tree(d, name) == d

\* Tree::insert: the record is set; the result is the value it replaces.
tree_insert(d, name, key, val) ==
    LET d1 == open_tree(d, name)
        tr == d1[name]
    IN  [db |-> [d1 EXCEPT ![name] =
                    [k \in (DOMAIN tr) \cup {key} |->
                        IF k = key THEN val ELSE tr[k]]],
         old |-> IF key \in DOMAIN tr THEN Some(tr[key]) ELSE None]

\* Tree::remove: the record is removed; the result is the value removed.
tree_remove(d, name, key) ==
    LET d1 == open_tree(d, name)
        tr == d1[name]
    IN  [db |-> [d1 EXCEPT ![name] = [k \in (DOMAIN tr) \ {key} |-> tr[k]]],
         old |-> IF key \in DOMAIN tr THEN Some(tr[key]) ELSE None]

\* Tree::get
tree_get(d, name, key) ==
    LET d1 == open_tree(d, name)
        tr == d1[name]
    IN  [db |-> d1,
         old |-> IF key \in DOMAIN tr THEN Some(tr[key]) ELSE None]

\* Tree::contains_key
tree_contains_key(d, name, key) ==
    LET d1 == open_tree(d, name)
    IN  [db |-> d1, old |-> key \in DOMAIN d1[name]]

\* ------------------------------------------------------------------ tasks
Tasks == 1..NTasks

\* What the environment lets fail at a step: nothing, the serializer, the
\* deserializer, or the KV engine (open_tree or the operation on the tree).
Failures == {"none", "Serialize", "Deserialize", "Io"}

IdleTask ==
    [pc |-> "idle", op |-> "none", value |-> NoChunk, x |-> 0, z |-> 0,
     dim |-> "", encoded |-> <<>>, ret |-> Pending, existed |-> FALSE,
     failure |-> "none", allowed |-> {}, start |-> <<0, 0>>, end |-> <<0, 0>>,
     cells |-> <<>>, results |-> <<>>]

\* A task may start a call when it runs no call.
Ready(t) == task[t].pc = "idle"

\* The caller takes the result of its call and goes on.
task_return(t) ==
    /\ task[t].pc = "done"
    /\ task' = [task EXCEPT ![t] = IdleTask]
    /\ UNCHANGED <<db, written, nwrites, log>>

\* unwrap or expect on an Err, or on a failed join: the task panics.
Panic(t, why) ==
    task' = [task EXCEPT ![t].pc = "panicked", ![t].failure = why]

Key(dimension, x, z) == <<dimension, x, z>>

\* The last chunk written under a key, as an Option.
LastWritten(k) == IF k \in DOMAIN written THEN Some(written[k]) ELSE None

\* History: a write of value under key k reaches the store, and each
\* get_chunk in flight on k may observe it from now on.
NoteWrite(tk, k, value) ==
    [u \in Tasks |->
        IF tk[u].pc = "spawned" /\ tk[u].op = "get_chunk"
           /\ Key(tk[u].dim, tk[u].x, tk[u].z) = k
        THEN [tk[u] EXCEPT !.allowed = @ \cup {Some(value)}]
        ELSE tk[u]]

SetWritten(k, value) ==
    [j \in (DOMAIN written) \cup {k} |-> IF j = k THEN value ELSE written[j]]

\* ------------------------------------------------------------------ insert_chunk
\* A write call up to the blocking closure's serialization.
WriteCall(t, op, value, dimension, fail) ==
    /\ Ready(t)
    /\ nwrites < MaxWrites
    /\ nwrites' = nwrites + 1
    /\ fail \in {"none", "Serialize"}
    /\ IF fail = "Serialize"
       THEN task' = [task EXCEPT ![t] =
                [IdleTask EXCEPT !.pc = "panicked", !.op = op,
                    !.value = value, !.x = value.x_pos, !.z = value.z_pos,
                    !.dim = dimension, !.failure = fail]]
       ELSE task' = [task EXCEPT ![t] =
                [IdleTask EXCEPT !.pc = "spawned", !.op = op,
                    !.value = value, !.x = value.x_pos, !.z = value.z_pos,
                    !.dim = dimension, !.encoded = Encode(value)]]
    /\ UNCHANGED <<db, written, log>>

\* insert_chunk: the names are formatted and the closure serializes the chunk.
insert_chunk_call(t, value, dimension, fail) ==
    WriteCall(t, "insert_chunk", value, dimension, fail)

\* A plausible slip: the two arms of the match exchanged.
insert_chunk_result_inverted(d, value, encoded, dimension) ==
    LET r == tree_insert(d, tree_name(dimension),
                         record_name(value.x_pos, value.z_pos), encoded)
    IN  [db |-> r.db, ret |-> OkBool(r.old.tag = "None")]

\* insert_chunk: open_tree, insert, and the match on the value replaced.
insert_chunk_result(d, value, encoded, dimension) ==
    LET r == tree_insert(d, tree_name(dimension),
                         record_name(value.x_pos, value.z_pos), encoded)
    IN  [db |-> r.db, ret |-> OkBool(r.old.tag = "Some")]

\* The KV engine fails, at open_tree or at the operation on the tree.
IoFailure(t, tree) ==
    /\ Panic(t, "Io")
    /\ db' = open_tree(db, tree)

\* The write of a call reaches the store and the call returns.
WriteStore(t, r) ==
    LET k == Key(task[t].dim, task[t].x, task[t].z)
    IN  /\ db' = r.db
        /\ written' = SetWritten(k, task[t].value)
        /\ task' = [NoteWrite(task, k, task[t].value) EXCEPT
                ![t].pc = "done",
                ![t].existed = (k \in DOMAIN written),
                ![t].ret = r.ret]

\* insert_chunk: the closure's insert and the result returned.
insert_chunk_store(t, fail) ==
    /\ task[t].pc = "spawned"
    /\ task[t].op = "insert_chunk"
    /\ fail \in {"none", "Io"}
    /\ IF fail = "Io"
       THEN /\ IoFailure(t, tree_name(task[t].dim))
            /\ UNCHANGED written
       ELSE WriteStore(t, insert_chunk_result(db, task[t].value,
                                              task[t].encoded, task[t].dim))
    /\ UNCHANGED <<nwrites, log>>

\* ------------------------------------------------------------------ update_chunk
\* update_chunk: the closure formats the key and serializes the chunk.
update_chunk_call(t, value, dimension, fail) ==
    WriteCall(t, "update_chunk", value, dimension, fail)

\* A plausible slip: the record removed from the dimension's own tree.
update_chunk_removal_dim(d, value, dimension) ==
    tree_remove(d, tree_name(dimension), record_name(value.x_pos, value.z_pos))

\* update_chunk: the record of the key is removed from the tree "chunks".
update_chunk_removal(d, value, dimension) ==
    tree_remove(d, "chunks", record_name(value.x_pos, value.z_pos))

\* update_chunk: open_tree("chunks"), remove, and the warning logged when
\* the remove found no record.
update_chunk_remove(t, fail) ==
    /\ task[t].pc = "spawned"
    /\ task[t].op = "update_chunk"
    /\ fail \in {"none", "Io"}
    /\ IF fail = "Io"
       THEN /\ IoFailure(t, "chunks")
            /\ UNCHANGED log
       ELSE LET r == update_chunk_removal(db, task[t].value, task[t].dim)
            IN  /\ db' = r.db
                /\ task' = [task EXCEPT ![t].pc = "removed"]
                /\ log' = IF r.old.tag = "None"
                          THEN [level |-> "warn", what |-> "update_chunk",
                                conn |-> 0]
                          ELSE log
    /\ UNCHANGED <<written, nwrites>>

\* update_chunk: open_tree, insert, and the match on the value replaced.
update_chunk_result(d, value, encoded, dimension) ==
    LET r == tree_insert(d, tree_name(dimension),
                         record_name(value.x_pos, value.z_pos), encoded)
    IN  [db |-> r.db, ret |-> OkBool(r.old.tag = "Some")]

\* update_chunk: the closure's insert and the result returned.
update_chunk_store(t, fail) ==
    /\ task[t].pc = "removed"
    /\ task[t].op = "update_chunk"
    /\ fail \in {"none", "Io"}
    /\ IF fail = "Io"
       THEN /\ IoFailure(t, tree_name(task[t].dim))
            /\ UNCHANGED written
       ELSE WriteStore(t, update_chunk_result(db, task[t].value,
                                              task[t].encoded, task[t].dim))
    /\ UNCHANGED <<nwrites, log>>

\* ------------------------------------------------------------------ get_chunk
\* get_chunk: the tree name is formatted and the closure spawned.
get_chunk_call(t, x, z, dimension) ==
    /\ Ready(t)
    /\ task' = [task EXCEPT ![t] =
            [IdleTask EXCEPT !.pc = "spawned", !.op = "get_chunk",
                !.x = x, !.z = z, !.dim = dimension,
                !.allowed = {LastWritten(Key(dimension, x, z))}]]
    /\ UNCHANGED <<db, written, nwrites, log>>

\* Some(bytes) deserialized, or None.
Deserialized(old) == IF old.tag = "Some" THEN Some(Decode(old.val)) ELSE None

\* A plausible slip: the coordinates exchanged in the key.
get_chunk_result_swapped(d, x, z, dimension) ==
    LET r == tree_get(d, tree_name(dimension), record_name(z, x))
    IN  [db |-> r.db, ret |-> Deserialized(r.old), found |-> r.old.tag = "Some"]

\* get_chunk: open_tree, get, and the deserialization of the record found.
get_chunk_result(d, x, z, dimension) ==
    LET r == tree_get(d, tree_name(dimension), record_name(x, z))
    IN  [db |-> r.db, ret |-> Deserialized(r.old), found |-> r.old.tag = "Some"]

\* get_chunk: the blocking closure and the result returned.
get_chunk_fetch(t, fail) ==
    /\ task[t].pc = "spawned"
    /\ task[t].op = "get_chunk"
    /\ fail \in {"none", "Io", "Deserialize"}
    /\ LET r == get_chunk_result(db, task[t].x, task[t].z, task[t].dim)
       IN  IF fail = "Io"
           THEN IoFailure(t, tree_name(task[t].dim))
           ELSE IF fail = "Deserialize"
           THEN /\ r.found
                /\ Panic(t, fail)
                /\ db' = r.db
           ELSE /\ db' = r.db
                /\ task' = [task EXCEPT ![t].pc = "done", ![t].ret = r.ret]
    /\ UNCHANGED <<written, nwrites, log>>

\* ------------------------------------------------------------------ chunk_exists
\* chunk_exists: the closure is spawned.
chunk_exists_call(t, x, z, dimension) ==
    /\ Ready(t)
    /\ task' = [task EXCEPT ![t] =
            [IdleTask EXCEPT !.pc = "spawned", !.op = "chunk_exists",
                !.x = x, !.z = z, !.dim = dimension]]
    /\ UNCHANGED <<db, written, nwrites, log>>

\* chunk_exists: open_tree and contains_key.
chunk_exists_result(d, x, z, dimension) ==
    LET r == tree_contains_key(d, tree_name(dimension), record_name(x, z))
    IN  [db |-> r.db, ret |-> OkBool(r.old)]

\* chunk_exists: the blocking closure and the result returned.
chunk_exists_check(t, fail) ==
    /\ task[t].pc = "spawned"
    /\ task[t].op = "chunk_exists"
    /\ fail \in {"none", "Io"}
    /\ IF fail = "Io"
       THEN IoFailure(t, tree_name(task[t].dim))
       ELSE LET r == chunk_exists_result(db, task[t].x, task[t].z, task[t].dim)
            IN  /\ db' = r.db
                /\ task' = [task EXCEPT ![t].pc = "done", ![t].ret = r.ret]
    /\ UNCHANGED <<written, nwrites, log>>

\* ------------------------------------------------------------------ get_chunk_range
\* for z in z..z1: the cells of one row.
RECURSIVE RowCells(_, _, _)
RowCells(x, z, z1) ==
    IF z >= z1 THEN <<>> ELSE <<<<x, z>>>> \o RowCells(x, z + 1, z1)

\* A plausible slip: the loops nested the other way round.
RECURSIVE RangeCellsZOuter(_, _, _, _)
RangeCellsZOuter(x, x1, z, z1) ==
    IF z >= z1 THEN <<>>
    ELSE [i \in 1..Len(RowCells(z, x, x1)) |->
              <<RowCells(z, x, x1)[i][2], RowCells(z, x, x1)[i][1]>>]
         \o RangeCellsZOuter(x, x1, z + 1, z1)

\* for x in start.0..end.0 { for z in start.1..end.1 }: the cells in the
\* order the loops visit them.
RECURSIVE RangeCells(_, _, _, _)
RangeCells(x, x1, z, z1) ==
    IF x >= x1 THEN <<>>
    ELSE RowCells(x, z, z1) \o RangeCells(x + 1, x1, z, z1)

\* get_chunk_range: the result list is created and the loops entered; with
\* no cell to visit the empty list is returned.
get_chunk_range_call(t, start, end, dimension) ==
    /\ Ready(t)
    /\ LET cells == RangeCells(start[1], end[1], start[2], end[2])
       IN  task' = [task EXCEPT ![t] =
               [IdleTask EXCEPT
                   !.pc = IF cells = <<>> THEN "done" ELSE "spawned",
                   !.op = "get_chunk_range", !.dim = dimension,
                   !.start = start, !.end = end, !.cells = cells,
                   !.ret = IF cells = <<>> THEN OkList(<<>>) ELSE Pending]]
    /\ UNCHANGED <<db, written, nwrites, log>>

\* get_chunk_range: one round of the inner loop: get_chunk on the cell, the
\* result pushed; after the last cell the list is returned.
get_chunk_range_step(t, fail) ==
    /\ task[t].pc = "spawned"
    /\ task[t].op = "get_chunk_range"
    /\ fail \in {"none", "Io", "Deserialize"}
    /\ LET cell == Head(task[t].cells)
           r == get_chunk_result(db, cell[1], cell[2], task[t].dim)
           results == Append(task[t].results, r.ret)
           rest == Tail(task[t].cells)
       IN  IF fail = "Io"
           THEN IoFailure(t, tree_name(task[t].dim))
           ELSE IF fail = "Deserialize"
           THEN /\ r.found
                /\ Panic(t, fail)
                /\ db' = r.db
           ELSE /\ db' = r.db
                /\ task' = [task EXCEPT
                       ![t].results = results,
                       ![t].cells = rest,
                       ![t].pc = IF rest = <<>> THEN "done" ELSE "spawned",
                       ![t].ret = IF rest = <<>> THEN OkList(results)
                                  ELSE Pending]
    /\ UNCHANGED <<written, nwrites, log>>

\* ------------------------------------------------------------------ keep-alive system
\* Duration::from_secs, in clock units.
Secs(n) == n * UnitsPerSec

\* Duration::as_secs: the whole seconds of a duration, the fraction dropped.
as_secs(d) == d \div UnitsPerSec

MaxNow == Secs(MaxSecs)

\* The columns of a logged-in player.
KAColumns == {"Player", "KeepAlive", "ConnectionWrapper"}

ConnIds == 1..MaxConns

\* The guards a task holds: of the entity store, and of connections.
NoGuard == [world |-> FALSE, conns |-> {}]

NoLog == [level |-> "none", what |-> "none", conn |-> 0]

\* A set of ids as a sequence, lowest id first: the order a query walks
\* its columns in.
RECURSIVE IdSeq(_)
IdSeq(S) ==
    IF S = {} THEN <<>>
    ELSE LET m == CHOOSE x \in S : \A y \in S : x <= y
         IN  <<m>> \o IdSeq(S \ {m})

\* The ids present in every named column.
Matching(st, cols) == {i \in StoredIds(st) : \A c \in cols : i \in DOMAIN st[c]}

\* History: the sends of the players whose components are in the store.
KeepSent(h, st) ==
    [c \in (DOMAIN h) \cap
            {st["ConnectionWrapper"][i] : i \in DOMAIN st["ConnectionWrapper"]}
        |-> h[c]]

\* The world of the server and its systems at boot: no connection yet, each
\* system before its first tick.
KAInit ==
    /\ now = 0
    /\ connections = {}
    /\ conn = <<>>
    /\ sender = [pc |-> "tick", next |-> 0, batch |-> <<>>, held |-> NoGuard,
                 result |-> "none"]
    /\ reaper = [pc |-> "tick", next |-> 0, todo |-> <<>>, entity |-> NoEntity,
                 conn_id |-> 0, held |-> NoGuard]
    /\ log = NoLog
    /\ sent = <<>>

\* Login success: the connection is accepted and registered, an entity is
\* allocated and given Player, KeepAlive{data = 0, last_sent = now} and
\* ConnectionWrapper, and the connection keeps the entity's handle.
Login ==
    /\ Len(conn) < MaxConns
    /\ free_ids # <<>> \/ next_id < MaxIds
    /\ free_ids # <<>> => generations[free_ids[Len(free_ids)] + 1] < MaxGen
    /\ LET a == allocate_entity(next_id, generations, free_ids)
           c == Len(conn) + 1
           st1 == StorageInsert(component_storage, a.entity, "Player", c)
           st2 == StorageInsert(st1, a.entity, "KeepAlive",
                                [data |-> 0, last_sent |-> now])
       IN  /\ next_id' = a.next_id
           /\ generations' = a.generations
           /\ free_ids' = a.free_ids
           /\ component_storage' =
                  StorageInsert(st2, a.entity, "ConnectionWrapper", c)
           /\ issued' = issued \cup {a.entity}
           /\ wop' = [op |-> "create", e |-> a.entity, ret |-> "Ok",
                     removed |-> FALSE, fresh |-> free_ids = <<>>]
           /\ conn' = Append(conn, [entity |-> a.entity, open |-> TRUE,
                                    alive |-> TRUE])
           /\ connections' = connections \cup {c}
           /\ sent' = [k \in (DOMAIN sent) \cup {c} |->
                          IF k = c THEN 0 ELSE sent[k]]
    /\ UNCHANGED <<deallocated, freed, now, sender, reaper, log>>

\* Disconnect of a connection by its own reader task (EOF, protocol error,
\* closed socket): the entity is removed with delete_entity, the socket is
\* closed and the connection id released.
Teardown(c) ==
    /\ c \in 1..Len(conn)
    /\ conn[c].alive
    /\ DeleteEntity(conn[c].entity)
    /\ conn' = [conn EXCEPT ![c].alive = FALSE, ![c].open = FALSE]
    /\ connections' = connections \ {c}
    /\ sent' = KeepSent(sent, component_storage')
    /\ UNCHANGED <<now, sender, reaper, log>>

\* drop_conn: the connection leaves the table and its socket is closed; an
\* id the table does not hold is an error.
drop_conn(table, cs, c) ==
    IF c \in table
    THEN [ret |-> "Ok", connections |-> table \ {c},
          conn |-> [cs EXCEPT ![c].open = FALSE]]
    ELSE [ret |-> "Err", connections |-> table, conn |-> cs]

\* Time passes.
Advance(d) ==
    /\ now + d <= MaxNow
    /\ now' = now + d
    /\ UNCHANGED <<connections, conn, sender, reaper, log, sent>>
    /\ UNCHANGED wvars

\* A plausible slip: the counter is not advanced.
refresh_noinc(keep_alive, t) ==
    [data |-> keep_alive.data, last_sent |-> t]

\* A plausible slip: last_sent is left as it was.
refresh_nostamp(keep_alive, t) ==
    [data |-> keep_alive.data + 1, last_sent |-> keep_alive.last_sent]

\* The sender's closure over one matching entity: data += 1 and
\* last_sent = Instant::now().
refresh(keep_alive, t) ==
    [data |-> keep_alive.data + 1, last_sent |-> t]

\* interval.tick().await of the sender returns. A timed run waits for the
\* deadline, and the next deadline is one period after it.
SenderTick(timed) ==
    /\ sender.pc = "tick"
    /\ timed => now >= sender.next
    /\ sender' = [sender EXCEPT
                     !.pc = "world",
                     !.next = IF timed THEN @ + Secs(SenderPeriod) ELSE @,
                     !.result = "none"]
    /\ UNCHANGED <<now, connections, conn, reaper, log, sent>>
    /\ UNCHANGED wvars

\* The sender's block under GET_WORLD().write(): every entity with Player,
\* KeepAlive and ConnectionWrapper is refreshed and its username, new data
\* and connection handle are collected; the write guard is dropped at the
\* end of the block.
SenderQuery ==
    /\ sender.pc = "world"
    /\ LET ids == Matching(component_storage, KAColumns)
           ka == component_storage["KeepAlive"]
           ka1 == [i \in DOMAIN ka |->
                      IF i \in ids THEN refresh(ka[i], now) ELSE ka[i]]
           order == IdSeq(ids)
       IN  /\ \A i \in ids : ka[i].data < MaxKeepAlive
           /\ component_storage' =
                  [component_storage EXCEPT !["KeepAlive"] = ka1]
           /\ sender' = [sender EXCEPT
                  !.batch = [k \in 1..Len(order) |->
                      [player |-> component_storage["Player"][order[k]],
                       data |-> ka1[order[k]].data,
                       conn |-> component_storage["ConnectionWrapper"][order[k]]]],
                  !.pc = IF ids = {} THEN "tick" ELSE "conn",
                  !.held = [@ EXCEPT !.world = FALSE]]
    /\ wop' = [op |-> "query_mut", e |-> NoEntity, ret |-> "Ok",
               removed |-> FALSE, fresh |-> FALSE]
    /\ UNCHANGED <<next_id, generations, free_ids, issued, deallocated, freed>>
    /\ UNCHANGED <<now, connections, conn, reaper, log, sent>>

\* conn.write().await of the sender: the guard lives to the end of the loop
\* body.
SenderLock ==
    /\ sender.pc = "conn"
    /\ LET c == Head(sender.batch).conn
       IN  /\ c \notin reaper.held.conns
           /\ sender' = [sender EXCEPT !.pc = "send",
                                        !.held.conns = @ \cup {c},
                                        !.result = "none"]
    /\ UNCHANGED <<now, connections, conn, reaper, log, sent>>
    /\ UNCHANGED wvars

\* conn.send_packet(keep_alive_out).await returns: an error is logged; the
\* loop goes on with the next connection.
SenderSend(ok) ==
    /\ sender.pc = "send"
    /\ LET c == Head(sender.batch).conn
           rest == Tail(sender.batch)
       IN  /\ ok => conn[c].open
           /\ log' = IF ok THEN log
                     ELSE [level |-> "error", what |-> "send_packet", conn |-> c]
           /\ sender' = [sender EXCEPT
                  !.batch = rest,
                  !.pc = IF rest = <<>> THEN "tick" ELSE "conn",
                  !.held.conns = @ \ {c},
                  !.result = IF ok THEN "Ok" ELSE "Err"]
           /\ sent' = IF c \in DOMAIN sent
                       THEN [sent EXCEPT ![c] = Head(sender.batch).data]
                       ELSE sent
    /\ UNCHANGED <<now, connections, conn, reaper>>
    /\ UNCHANGED wvars

\* interval.tick().await of the receiver returns.
ReaperTick(timed) ==
    /\ reaper.pc = "tick"
    /\ timed => now >= reaper.next
    /\ reaper' = [reaper EXCEPT
                     !.pc = "world",
                     !.next = IF timed THEN @ + Secs(ReaperPeriod) ELSE @]
    /\ UNCHANGED <<now, connections, conn, sender, log, sent>>
    /\ UNCHANGED wvars

\* The receiver's block under GET_WORLD().read(): the connection handles of
\* the entities with KeepAlive and ConnectionWrapper whose last_sent is more
\* than Timeout whole seconds old; the read guard is dropped at the end of
\* the block.
ReaperScan ==
    /\ reaper.pc = "world"
    /\ LET ids == Matching(component_storage, {"KeepAlive", "ConnectionWrapper"})
           ka == component_storage["KeepAlive"]
           expired == {i \in ids : as_secs(now - ka[i].last_sent) > Timeout}
           order == IdSeq(expired)
       IN  reaper' = [reaper EXCEPT
               !.todo = [k \in 1..Len(order) |->
                            component_storage["ConnectionWrapper"][order[k]]],
               !.pc = IF expired = {} THEN "tick" ELSE "conn",
               !.held = [@ EXCEPT !.world = FALSE]]
    /\ UNCHANGED <<now, connections, conn, sender, log, sent>>
    /\ UNCHANGED wvars

\* A plausible slip: the read guard of the connection is not dropped.
ReaperReadConnNoDrop ==
    /\ reaper.pc = "conn"
    /\ LET c == Head(reaper.todo)
       IN  /\ c \notin sender.held.conns
           /\ reaper' = [reaper EXCEPT
                  !.entity = conn[c].entity,
                  !.conn_id = c,
                  !.held.conns = @ \cup {c},
                  !.pc = "drop"]
    /\ UNCHANGED <<now, connections, conn, sender, log, sent>>
    /\ UNCHANGED wvars

\* conn.read().await of the receiver: the entity and the id of the
\* connection are copied and the guard is dropped.
ReaperReadConn ==
    /\ reaper.pc = "conn"
    /\ LET c == Head(reaper.todo)
       IN  /\ c \notin sender.held.conns
           /\ reaper' = [reaper EXCEPT
                  !.entity = conn[c].entity,
                  !.conn_id = c,
                  !.held.conns = (@ \cup {c}) \ {c},
                  !.pc = "drop"]
    /\ UNCHANGED <<now, connections, conn, sender, log, sent>>
    /\ UNCHANGED wvars

\* A plausible slip: the error of drop_conn is propagated with `?` and the
\* receiver returns.
ReaperDropConnAbort ==
    /\ reaper.pc = "drop"
    /\ LET d == drop_conn(connections, conn, reaper.conn_id)
       IN  /\ connections' = d.connections
           /\ conn' = d.conn
           /\ log' = log
           /\ reaper' = [reaper EXCEPT
                  !.pc = IF d.ret = "Ok" THEN "delete" ELSE "exited"]
    /\ UNCHANGED <<now, sender, sent>>
    /\ UNCHANGED wvars

\* drop_conn(conn_id).await of the receiver: an error is logged and the
\* loop body goes on.
ReaperDropConn ==
    /\ reaper.pc = "drop"
    /\ LET d == drop_conn(connections, conn, reaper.conn_id)
       IN  /\ connections' = d.connections
           /\ conn' = d.conn
           /\ log' = IF d.ret = "Ok" THEN log
                     ELSE [level |-> "warn", what |-> "drop_conn",
                           conn |-> reaper.conn_id]
           /\ reaper' = [reaper EXCEPT !.pc = "delete"]
    /\ UNCHANGED <<now, sender, sent>>
    /\ UNCHANGED wvars

\* GET_WORLD().write().await and world.delete_entity(&entity) of the
\* receiver: an error is logged; the guards are dropped at the end of the
\* loop body and the loop goes on with the next connection.
ReaperDelete ==
    /\ reaper.pc = "delete"
    /\ DeleteEntity(reaper.entity)
    /\ log' = IF wop'.ret = "Ok" THEN log
              ELSE [level |-> "warn", what |-> "delete_entity",
                    conn |-> reaper.conn_id]
    /\ LET rest == Tail(reaper.todo)
       IN  reaper' = [reaper EXCEPT
               !.todo = rest,
               !.pc = IF rest = <<>> THEN "tick" ELSE "conn",
               !.held = NoGuard]
    /\ sent' = KeepSent(sent, component_storage')
    /\ UNCHANGED <<now, connections, conn, sender>>

\* ------------------------------------------------------------------ systems runtime
\* ALL_SYSTEMS, in the order of the table.
ALL_SYSTEMS ==
    <<"TickSystem", "KeepAliveSystem", "ChunkSender", "ConnectionHandler",
      "CommandSystem">>

Systems == Range(ALL_SYSTEMS)

\* Before start_all_systems and kill_all_systems are called.
SysInit ==
    /\ sys = [s \in Systems |-> [status |-> "registered", stop |-> FALSE]]
    /\ starter = [pc |-> "spawn", i |-> 1]
    /\ killer = [pc |-> "idle", i |-> 1]

\* System::kill of a system. KeepAliveSystem does not override the default
\* of the trait, whose body is empty; the other systems take the request
\* to stop.
kill(st, s) ==
    IF s = "KeepAliveSystem" THEN st
    ELSE [st EXCEPT ![s].stop = TRUE]

\* start_all_systems, one turn of its for loop: the system's run is spawned
\* as a task; after the last one the function awaits join_all(handles).
Spawn ==
    /\ starter.pc = "spawn"
    /\ sys' = [sys EXCEPT ![ALL_SYSTEMS[starter.i]].status = "running"]
    /\ starter' = IF starter.i = Len(ALL_SYSTEMS)
                  THEN [pc |-> "join", i |-> starter.i]
                  ELSE [pc |-> "spawn", i |-> starter.i + 1]
    /\ UNCHANGED killer
    /\ UNCHANGED <<wvars, dbvars, kavars, stvars>>

\* join_all(handles).await has returned and start_all_systems returns
\* Ok(()): every spawned task has finished, by returning or by a panic
\* (its JoinHandle then yields a JoinError, which join_all collects and
\* the function drops).
start_all_systems_done ==
    /\ starter.pc = "join"
    /\ \A s \in Systems : sys[s].status \in {"exited", "failed"}

\* kill_all_systems is called.
KillStart ==
    /\ killer.pc = "idle"
    /\ killer' = [pc |-> "kill", i |-> 1]
    /\ UNCHANGED <<sys, starter>>
    /\ UNCHANGED <<wvars, dbvars, kavars, stvars>>

\* kill_all_systems, one turn of its for loop: system.kill().await; after
\* the last one it returns Ok(()).
KillNext ==
    /\ killer.pc = "kill"
    /\ sys' = kill(sys, ALL_SYSTEMS[killer.i])
    /\ killer' = IF killer.i = Len(ALL_SYSTEMS)
                 THEN [pc |-> "done", i |-> killer.i]
                 ELSE [pc |-> "kill", i |-> killer.i + 1]
    /\ UNCHANGED starter
    /\ UNCHANGED <<wvars, dbvars, kavars, stvars>>

\* A system other than KeepAliveSystem sees the request to stop at a
\* suspension point and its run returns.
SystemExit(s) ==
    /\ s # "KeepAliveSystem"
    /\ sys[s].status = "running"
    /\ sys[s].stop
    /\ sys' = [sys EXCEPT ![s].status = "exited"]
    /\ UNCHANGED <<starter, killer>>
    /\ UNCHANGED <<wvars, dbvars, kavars, stvars>>

\* The run of a system other than KeepAliveSystem ends with an unexpected
\* failure. run returns (), so the failure is a panic; the task spawned by
\* start_all_systems ends with it, and nothing in start_all_systems logs
\* it or spawns the system again.
SystemFail(s) ==
    /\ s # "KeepAliveSystem"
    /\ sys[s].status = "running"
    /\ sys' = [sys EXCEPT ![s].status = "failed"]
    /\ UNCHANGED <<starter, killer>>
    /\ UNCHANGED <<wvars, dbvars, kavars, stvars>>

\* KeepAliveSystem::run: tokio::join!(sender, receiver), each polled while
\* the task runs; with no player connected each loop is a tick and a query.
\* Neither loop has a break or a return.
KeepAliveRun ==
    /\ sys["KeepAliveSystem"].status = "running"
    /\ \/ SenderTick(FALSE)
       \/ SenderQuery
       \/ ReaperTick(FALSE)
       \/ ReaperScan
    /\ UNCHANGED dbvars
    /\ UNCHANGED sysvars
    /\ UNCHANGED stvars

\* ------------------------------------------------------------------ status
\* A u32 is written as its two 16-bit halves, [hi, lo] for hi * 2^16 + lo.
U32(n) == [hi |-> n \div (2 ^ 16), lo |-> n % (2 ^ 16)]

\* A cast `as u32` of an i32: the value modulo 2^32, so n + 2^32 for a
\* negative n.
as_u32(n) ==
    IF n >= 0 THEN U32(n)
    ELSE LET m == (n + 2147483647) + 1
         IN  [hi |-> (2 ^ 15) + m \div (2 ^ 16), lo |-> m % (2 ^ 16)]

\* The protocol versions a client may put in its Handshake: a VarInt, a
\* signed 32-bit integer; -1 is what a client sends that only asks for the
\* server's version, 766 is the version of 1.20.6.
ProtocolVersions == {(0 - 2147483647) - 1, 0 - 1, 0, 766, 2147483647}

\* A connection just accepted.
NewConnection ==
    [state |-> "Handshake", protocol_version |-> 0, socket |-> <<>>,
     handled |-> 0, ret |-> "none"]

\* The configuration of the server.
Configs == [max_players : 0..MaxPlayers]

\* A connection in Handshake, under a configuration of at most MaxPlayers
\* players.
StInit ==
    /\ config = [max_players |-> MaxPlayers]
    /\ sconn = NewConnection

\* Handshake with next_state = 1: the protocol version of the client is
\* kept in the connection's metadata and the connection moves to Status.
Handshake(pv) ==
    /\ sconn.state = "Handshake"
    /\ sconn' = [sconn EXCEPT !.state = "Status", !.protocol_version = pv]
    /\ UNCHANGED config
    /\ UNCHANGED <<wvars, dbvars, kavars, sysvars>>

\* The JSON of the response.
JsonResponse(c, cfg) ==
    [version |-> [name |-> "1.20.6",
                  protocol |-> as_u32(c.protocol_version)],
     players |-> [max |-> cfg.max_players, online |-> 2]]

\* The outcomes of conn.socket.write(response): every byte written, a part
\* of them written (write is not write_all), or an error.
WriteOutcomes == {"all", "part", "err"}

\* Status::handle: the response is built from the connection's metadata and
\* the configuration, encoded and written to the socket with one write; the
\* state of the connection is not touched.
StatusHandle(w) ==
    /\ sconn.state = "Status"
    /\ sconn.handled < MaxRequests
    /\ sconn' = [sconn EXCEPT
           !.socket = IF w = "err" THEN @
                      ELSE Append(@, [packet_id |-> 0,
                                      json |-> JsonResponse(sconn, config),
                                      complete |-> w = "all"]),
           !.handled = @ + 1,
           !.ret = IF w = "err" THEN "Err" ELSE "Ok"]
    /\ UNCHANGED config
    /\ UNCHANGED <<wvars, dbvars, kavars, sysvars>>

\* The connection is closed and the next one is accepted.
StatusClose ==
    /\ sconn # NewConnection
    /\ sconn' = NewConnection
    /\ UNCHANGED config
    /\ UNCHANGED <<wvars, dbvars, kavars, sysvars>>

\* ------------------------------------------------------------------ specifications
\* Database: an empty store; no task has called it.
DbInit ==
    /\ db = [n \in TreeNames |-> <<>>]
    /\ task = [t \in Tasks |-> IdleTask]
    /\ written = <<>>
    /\ nwrites = 0

Init == WorldInit /\ DbInit /\ KAInit /\ SysInit /\ StInit

\* The entity store under every sequence of its operations.
Next ==
    \/ \E comps \in Builds :
          /\ CreateEntity(comps)
          /\ UNCHANGED dbvars /\ UNCHANGED kavars /\ UNCHANGED sysvars
          /\ UNCHANGED stvars
    \/ \E entity \in DeleteInputs :
          /\ DeleteEntity(entity)
          /\ UNCHANGED dbvars /\ UNCHANGED kavars /\ UNCHANGED sysvars
          /\ UNCHANGED stvars

Spec == Init /\ [][Next]_vars

\* The ends of a range: one past the last coordinate is a valid end.
RangeEnds == (0 - 1)..(MaxCoord + 1)

\* The chunk store called by one task, one call after another.
NextDb ==
    /\ UNCHANGED wvars
    /\ UNCHANGED <<now, connections, conn, sender, reaper, sent>>
    /\ UNCHANGED sysvars
    /\ UNCHANGED stvars
    /\ \/ \E c \in Chunks, d \in Dims, f \in Failures :
              insert_chunk_call(1, c, d, f)
       \/ \E f \in Failures : insert_chunk_store(1, f)
       \/ \E c \in Chunks, d \in Dims, f \in Failures :
              update_chunk_call(1, c, d, f)
       \/ \E f \in Failures : update_chunk_remove(1, f)
       \/ \E f \in Failures : update_chunk_store(1, f)
       \/ \E x \in Coords, z \in Coords, d \in Dims : get_chunk_call(1, x, z, d)
       \/ \E f \in Failures : get_chunk_fetch(1, f)
       \/ \E x \in Coords, z \in Coords, d \in Dims :
              chunk_exists_call(1, x, z, d)
       \/ \E f \in Failures : chunk_exists_check(1, f)
       \/ \E s \in Coords \X Coords, e \in RangeEnds \X RangeEnds, d \in Dims :
              get_chunk_range_call(1, s, e, d)
       \/ \E f \in Failures : get_chunk_range_step(1, f)
       \/ task_return(1)

SpecDb == Init /\ [][NextDb]_vars

\* The chunks of the concurrent runs: one key of one dimension.
ConcChunks == {c \in Chunks : c.x_pos = 0 - 1 /\ c.z_pos = 0}

\* The chunk store called by concurrent tasks on the same key.
NextConc ==
    /\ UNCHANGED wvars
    /\ UNCHANGED <<now, connections, conn, sender, reaper, sent>>
    /\ UNCHANGED sysvars
    /\ UNCHANGED stvars
    /\ \E t \in Tasks :
          \/ \E c \in ConcChunks, f \in Failures :
                 insert_chunk_call(t, c, "overworld", f)
          \/ \E f \in Failures : insert_chunk_store(t, f)
          \/ \E c \in ConcChunks, f \in Failures :
                 update_chunk_call(t, c, "overworld", f)
          \/ \E f \in Failures : update_chunk_remove(t, f)
          \/ \E f \in Failures : update_chunk_store(t, f)
          \/ get_chunk_call(t, 0 - 1, 0, "overworld")
          \/ \E f \in Failures : get_chunk_fetch(t, f)
          \/ task_return(t)

SpecConc == Init /\ [][NextConc]_vars

\* The server at boot for the keep-alive system: World::new with the columns
\* of a player, no connection.
InitKA ==
    /\ next_id = 0
    /\ generations = <<>>
    /\ free_ids = <<>>
    /\ component_storage = [c \in KAColumns |-> <<>>]
    /\ issued = {}
    /\ deallocated = {}
    /\ freed = <<>>
    /\ wop = [op |-> "none", e |-> NoEntity, ret |-> "Ok", removed |-> FALSE,
              fresh |-> FALSE]
    /\ DbInit
    /\ KAInit
    /\ SysInit
    /\ StInit

\* The time that passes between two steps of the untimed runs: enough for a
\* keep-alive to expire.
Expiry == Secs(Timeout + 1)

\* The keep-alive system with logins and disconnects, under every
\* interleaving of its steps.
NextKA ==
    /\ UNCHANGED dbvars
    /\ UNCHANGED sysvars
    /\ UNCHANGED stvars
    /\ \/ Login
       \/ \E c \in ConnIds : Teardown(c)
       \/ Advance(Expiry)
       \/ SenderTick(FALSE)
       \/ SenderQuery
       \/ SenderLock
       \/ \E ok \in BOOLEAN : SenderSend(ok)
       \/ ReaperTick(FALSE)
       \/ ReaperScan
       \/ ReaperReadConn
       \/ ReaperDropConn
       \/ ReaperDelete

SpecKA == InitKA /\ [][NextKA]_vars

\* One unit of time passes while the receiver sleeps in its interval: with
\* no contention its steps take no time, so the clock stands still from a
\* tick that is due to the end of the scan's loop.
TimePasses ==
    /\ reaper.pc = "tick"
    /\ now < reaper.next
    /\ Advance(1)

\* The receiver on its 5 s interval with no contention: the sender is not
\* running, so no last_sent is refreshed, and no connection is torn down
\* by its own task. Players log in at any instant of the first period.
NextTimed ==
    /\ UNCHANGED dbvars
    /\ UNCHANGED sysvars
    /\ UNCHANGED stvars
    /\ \/ now <= Secs(ReaperPeriod) /\ Login
       \/ TimePasses
       \/ ReaperTick(TRUE)
       \/ ReaperScan
       \/ ReaperReadConn
       \/ ReaperDropConn
       \/ ReaperDelete

SpecTimed == InitKA /\ [][NextTimed]_vars

\* Time passes while both loops of the keep-alive system sleep in
\* interval.tick().
TimePassesAsleep ==
    /\ sender.pc = "tick"
    /\ now < sender.next
    /\ reaper.pc = "tick"
    /\ now < reaper.next
    /\ Advance(1)

\* The sender on its 15 s interval and the receiver on its 5 s interval
\* with no contention: a step of either loop takes no time, and a send
\* succeeds or fails. Players log in at any instant of the sender's first
\* period.
NextAlive ==
    /\ UNCHANGED dbvars
    /\ UNCHANGED sysvars
    /\ UNCHANGED stvars
    /\ \/ now <= Secs(SenderPeriod) /\ Login
       \/ TimePassesAsleep
       \/ SenderTick(TRUE)
       \/ SenderQuery
       \/ SenderLock
       \/ \E ok \in BOOLEAN : SenderSend(ok)
       \/ ReaperTick(TRUE)
       \/ ReaperScan

SpecAlive == InitKA /\ [][NextAlive]_vars

\* The server at boot, before its systems are started.
InitSys == InitKA

\* The systems runtime: start_all_systems and kill_all_systems, called in
\* any order and interleaved, and the tasks they spawn.
NextSys ==
    \/ Spawn
    \/ KillStart
    \/ KillNext
    \/ \E s \in Systems : SystemExit(s)
    \/ \E s \in Systems : SystemFail(s)
    \/ KeepAliveRun

\* The scheduler runs every task that can take a step: the two functions,
\* once called, and each spawned system.
SpecSys ==
    /\ InitSys
    /\ [][NextSys]_vars
    /\ WF_vars(Spawn)
    /\ WF_vars(KillNext)
    /\ \A s \in Systems : WF_vars(SystemExit(s))
    /\ WF_vars(KeepAliveRun)

\* The server at boot under any configuration.
InitStatus ==
    /\ WorldInit
    /\ DbInit
    /\ KAInit
    /\ SysInit
    /\ config \in Configs
    /\ sconn = NewConnection

\* Clients that ask for the status of the server, one connection after
\* another.
NextStatus ==
    \/ \E pv \in ProtocolVersions : Handshake(pv)
    \/ \E w \in WriteOutcomes : StatusHandle(w)
    \/ StatusClose

SpecStatus == InitStatus /\ [][NextStatus]_vars

\* ------------------------------------------------------------------ entity store claims
\* C1: delete_entity(e) returns EntityNotFound iff e.id >= generations.len();
\* for a handle the allocator returned it returns InvalidGeneration iff the
\* handle was already deallocated, and Ok in every other case.
C1_DeleteResult ==
    [][wop'.op = "delete" =>
        LET e == wop'.e
        IN  /\ (wop'.ret = "EntityNotFound") <=> (e.id >= Len(generations))
            /\ e \in issued =>
                /\ (wop'.ret = "InvalidGeneration") <=> (e \in deallocated)
                /\ (wop'.ret = "Ok") <=>
                      (e \notin deallocated /\ e.id < Len(generations))]_vars

\* A handle of the allocator, deleted a second time, was refused.
C1_Witness ==
    /\ wop.op = "delete"
    /\ wop.e \in issued
    /\ wop.e \in deallocated
    /\ wop.ret = "InvalidGeneration"

\* The entities that are live: returned by the allocator and not
\* deallocated since.
Live == issued \ deallocated

\* C2: no column holds a value for an id that has no live entity; after a
\* successful delete_entity(e) no column holds a value for e.id.
C2_NoDeadComponents ==
    /\ \A id \in StoredIds(component_storage) :
          id < Len(generations) /\ \E e \in Live : e.id = id
    /\ (wop.op = "delete" /\ wop.ret = "Ok") =>
          wop.e.id \notin StoredIds(component_storage)

\* A live entity with components was deleted while another entity keeps its own.
C2_Witness ==
    /\ wop.op = "delete"
    /\ wop.ret = "Ok"
    /\ wop.removed
    /\ StoredIds(component_storage) # {}

\* C3: generations[id] never decreases, increases by exactly one on each
\* successful deallocate of that id, and is unchanged by allocate and by a
\* failed deallocate.
C3_GenerationMonotonic ==
    [][/\ Len(generations') >= Len(generations)
       /\ \A i \in 1..Len(generations) :
             generations'[i] = generations[i] +
                 (IF wop'.op = "delete" /\ wop'.ret = "Ok" /\ wop'.e.id = i - 1
                  THEN 1 ELSE 0)]_vars

\* An id was deallocated twice, each time with success.
C3_Witness ==
    /\ wop.op = "delete"
    /\ wop.ret = "Ok"
    /\ wop.e.generation = 1
    /\ generations[wop.e.id + 1] = 2

\* The position in freed of the most recent deallocation among the ids of
\* the pool.
LastFreedIn(pool) ==
    CHOOSE k \in 1..Len(freed) :
        /\ freed[k].id \in pool
        /\ \A j \in (k + 1)..Len(freed) : freed[j].id \notin pool

\* Every handle deallocated with success so far was returned by the
\* allocator: no handle built elsewhere has freed an id.
OnlyIssuedFreed == deallocated \subseteq issued

\* C4: over the operations on handles obtained from the allocator, with a
\* non-empty free pool the allocation returns the most recently freed id
\* with the freed handle's generation plus one, and a later delete of the
\* old handle returns InvalidGeneration; with an empty pool it returns a
\* new id with generation 0.
C4_EntityReuse ==
    [][OnlyIssuedFreed' =>
       /\ wop'.op = "create" =>
            IF free_ids # <<>>
            THEN LET h == freed[LastFreedIn(Range(free_ids))]
                 IN  /\ wop'.e.id = h.id
                     /\ wop'.e.generation = h.generation + 1
            ELSE /\ wop'.e.id \notin {h.id : h \in issued}
                 /\ wop'.e.generation = 0
       /\ (/\ wop'.op = "delete"
           /\ wop'.e \in deallocated
           /\ Entity(wop'.e.id, wop'.e.generation + 1) \in issued) =>
            wop'.ret = "InvalidGeneration"]_vars

\* An id was reused while an id freed earlier is still in the pool.
C4_Witness ==
    /\ OnlyIssuedFreed
    /\ wop.op = "create"
    /\ wop.e.generation = 1
    /\ free_ids # <<>>
    /\ Entity(wop.e.id, 0) \in deallocated

\* ------------------------------------------------------------------ chunk store claims
\* The record stored for a chunk key, as an Option of its bytes.
Stored(dimension, x, z) ==
    LET tr == db[tree_name(dimension)]
        k == record_name(x, z)
    IN  IF k \in DOMAIN tr THEN Some(tr[k]) ELSE None

Done(t, op) == task[t].pc = "done" /\ task[t].op = op

\* C5: insert_chunk(c, d) returns true iff a record existed under the key of
\* c in dimension d immediately before the insert, and afterwards the record
\* at that key is c.
C5_InsertResult ==
    \A t \in Tasks :
        Done(t, "insert_chunk") =>
            /\ task[t].ret = OkBool(task[t].existed)
            /\ Stored(task[t].dim, task[t].value.x_pos, task[t].value.z_pos)
                   = Some(Encode(task[t].value))

\* A second insert of a key returned true.
C5_Witness ==
    \E t \in Tasks :
        /\ Done(t, "insert_chunk")
        /\ task[t].existed
        /\ task[t].ret = OkBool(TRUE)

\* C6: get_chunk(x, z, d) returns Some(c) with c the chunk last inserted
\* under that key, and None for a key never written in d.
C6_RoundTrip ==
    \A t \in Tasks :
        Done(t, "get_chunk") =>
            task[t].ret = LastWritten(Key(task[t].dim, task[t].x, task[t].z))

\* A chunk at a negative coordinate was read back after two writes of its key.
C6_Witness ==
    \E t \in Tasks :
        /\ Done(t, "get_chunk")
        /\ task[t].ret.tag = "Some"
        /\ task[t].ret.val.x_pos < 0
        /\ task[t].ret.val.data = 2
        /\ nwrites = 2

Max(a, b) == IF a >= b THEN a ELSE b

\* C7 as stated: for all start and end, get_chunk_range returns exactly
\* (x1-x0)*(z1-z0) entries.
C7_RangeCountAllEnds ==
    \A t \in Tasks :
        Done(t, "get_chunk_range") =>
            Len(task[t].ret.val) =
                (task[t].end[1] - task[t].start[1])
                    * (task[t].end[2] - task[t].start[2])

\* C7, amended: get_chunk_range returns max(0, x1-x0) * max(0, z1-z0)
\* entries, ordered row-major with x outermost and z innermost, the entry for
\* (x, z) being what get_chunk(x, z, d) returns.
C7_RangeOrder ==
    \A t \in Tasks :
        Done(t, "get_chunk_range") =>
            LET x0 == task[t].start[1]
                z0 == task[t].start[2]
                nx == Max(task[t].end[1] - x0, 0)
                nz == Max(task[t].end[2] - z0, 0)
                r == task[t].ret.val
            IN  /\ Len(r) = nx * nz
                /\ \A x \in x0..(task[t].end[1] - 1),
                      z \in z0..(task[t].end[2] - 1) :
                       r[(x - x0) * nz + (z - z0) + 1]
                           = get_chunk_result(db, x, z, task[t].dim).ret

\* A range of two rows and two columns returned a chunk and a hole.
C7_Witness ==
    \E t \in Tasks :
        /\ Done(t, "get_chunk_range")
        /\ Len(task[t].ret.val) = 4
        /\ \E i, j \in 1..4 :
              task[t].ret.val[i].tag = "Some" /\ task[t].ret.val[j].tag = "None"

\* The chunk records of every dimension.
ChunkRecords(d) == [n \in {tree_name(x) : x \in Dims} |-> d[n]]

\* C8: from the same store update_chunk and insert_chunk return the same
\* boolean (true iff the record existed) and leave the same chunk records in
\* every dimension.
C8_UpdateAsInsert ==
    /\ \A c \in Chunks, d \in Dims :
          LET e == Encode(c)
              i == insert_chunk_result(db, c, e, d)
              u == update_chunk_result(update_chunk_removal(db, c, d).db,
                                       c, e, d)
          IN  /\ i.ret = u.ret
              /\ ChunkRecords(i.db) = ChunkRecords(u.db)
    /\ \A t \in Tasks :
          Done(t, "update_chunk") =>
              /\ task[t].ret = OkBool(task[t].existed)
              /\ Stored(task[t].dim, task[t].value.x_pos, task[t].value.z_pos)
                     = Some(Encode(task[t].value))

\* An update replaced a record and returned true.
C8_Witness ==
    \E t \in Tasks :
        /\ Done(t, "update_chunk")
        /\ task[t].existed
        /\ task[t].ret = OkBool(TRUE)

\* C9: the record of a key is the value of the write that reached the store
\* last, and a get_chunk returns the value of the key at its call or the
\* value of a write that reached the store during the call, in full.
C9_LastWriterWins ==
    /\ \A k \in DOMAIN written :
          Stored(k[1], k[2], k[3]) = Some(Encode(written[k]))
    /\ \A t \in Tasks :
          Done(t, "get_chunk") => task[t].ret \in task[t].allowed

\* A get_chunk raced with a write of its key and returned a chunk, while
\* another task has a write of the key in flight.
C9_Witness ==
    \E t, u \in Tasks :
        /\ Done(t, "get_chunk")
        /\ Cardinality(task[t].allowed) = 2
        /\ task[t].ret.tag = "Some"
        /\ task[u].op = "update_chunk"
        /\ task[u].pc = "removed"

\* C10: a failure of the KV engine or of (de)serialization is returned to
\* the caller as an Err, and the calling task keeps running.
C10_ErrorsReturned ==
    \A t \in Tasks :
        task[t].failure # "none" =>
            /\ task[t].pc = "done"
            /\ task[t].ret.tag = "Err"

\* ------------------------------------------------------------------ entity store claims, continued
\* C15: from a state with an empty free pool, successive allocations with
\* no deallocation between them return distinct entities whose ids increase
\* by exactly one per call.
C15_SuccessiveAllocations ==
    [][(wop'.op = "create" /\ free_ids = <<>>) =>
          /\ wop'.e \notin issued
          /\ (wop.op = "create" /\ wop.fresh) =>
                /\ wop'.e.id = wop.e.id + 1
                /\ wop'.e # wop.e]_vars

\* Two allocations from a fresh allocator, nothing deallocated.
C15_Witness ==
    /\ wop.op = "create"
    /\ wop.fresh
    /\ wop.e.id = 1
    /\ Entity(0, 0) \in issued
    /\ deallocated = {}

\* C16: a delete_entity that fails leaves generations, the free pool and
\* every component column as they were.
C16_FailedDeleteNoEffect ==
    [][(wop'.op = "delete" /\ wop'.ret # "Ok") =>
          UNCHANGED <<generations, free_ids, component_storage>>]_vars

\* ------------------------------------------------------------------ keep-alive claims
\* The slot of id i holds the components of the same player before and
\* after the step: its connection handle is the same.
SamePlayer(i) ==
    /\ i \in DOMAIN component_storage["ConnectionWrapper"]
    /\ i \in DOMAIN component_storage'["ConnectionWrapper"]
    /\ component_storage'["ConnectionWrapper"][i] =
           component_storage["ConnectionWrapper"][i]
    /\ i \in DOMAIN component_storage["KeepAlive"]
    /\ i \in DOMAIN component_storage'["KeepAlive"]

\* C11: the data carried by the successive keep-alive sends to a player
\* increases by exactly one from send to send, and the KeepAlive of a player
\* never goes back: last_sent never decreases and data never decreases,
\* whatever the reaper, logins and disconnects do in between.
C11_KeepAliveMonotonic ==
    [][/\ (sender.pc = "send" /\ sender'.pc # "send"
              /\ Head(sender.batch).conn \in DOMAIN sent) =>
              Head(sender.batch).data = sent[Head(sender.batch).conn] + 1
       /\ \A i \in 0..(MaxIds - 1) :
              SamePlayer(i) =>
                 LET old == component_storage["KeepAlive"][i]
                     new == component_storage'["KeepAlive"][i]
                 IN  /\ new.last_sent >= old.last_sent
                     /\ new.data \in {old.data, old.data + 1}]_vars

\* A player has been sent two keep-alives, the second at a later time than
\* the login.
C11_Witness ==
    \E i \in DOMAIN component_storage["KeepAlive"] :
        /\ i \in DOMAIN component_storage["ConnectionWrapper"]
        /\ sent[component_storage["ConnectionWrapper"][i]] = 2
        /\ component_storage["KeepAlive"][i].data = 2
        /\ component_storage["KeepAlive"][i].last_sent > 0

\* C17: the delete_entity of the reaper removes no component of an entity
\* other than the one it collected: a slot whose live entity is another
\* handle keeps its components.
C17_ReaperDeletesOnlyCollected ==
    [][(reaper.pc = "delete" /\ reaper'.pc # "delete") =>
          \A i \in 0..(MaxIds - 1) :
              (i < Len(generations) /\
               Entity(i, generations[i + 1]) # reaper.entity) =>
                  \A c \in KAColumns :
                      i \in DOMAIN component_storage[c] =>
                          i \in DOMAIN component_storage'[c]]_vars

\* C18: while the sender or the reaper awaits a connection lock, a send or
\* drop_conn it holds no guard of the entity store, and while it awaits the
\* entity store it holds no guard of a connection.
C18_LockOrder ==
    /\ sender.pc \in {"conn", "send"} => ~sender.held.world
    /\ sender.pc = "world" => sender.held.conns = {}
    /\ reaper.pc \in {"conn", "drop"} => ~reaper.held.world
    /\ reaper.pc \in {"world", "delete"} => reaper.held.conns = {}

\* The sender is in send_packet under the write guard of a connection while
\* the reaper, past conn.read() and drop_conn, awaits the entity store.
C18_Witness ==
    /\ sender.pc = "send"
    /\ sender.held.conns # {}
    /\ reaper.pc = "delete"
    /\ reaper.conn_id \in ConnIds

\* C19: a keep-alive send that fails is logged, the connection is marked
\* for drop (it leaves the connection table or its socket is closed), and
\* the round goes on with the connections that remain.
C19_SendFailureMarksDrop ==
    [][(sender.pc = "send" /\ sender'.pc # "send" /\ sender'.result = "Err") =>
          LET c == Head(sender.batch).conn
          IN  /\ log' = [level |-> "error", what |-> "send_packet", conn |-> c]
              /\ c \notin connections' \/ ~conn'[c].open
              /\ sender'.batch = Tail(sender.batch)
              /\ sender'.pc = IF Tail(sender.batch) = <<>> THEN "tick"
                              ELSE "conn"]_vars

\* C20: in the loop of the reaper over the connections of one scan, a
\* failure of drop_conn is logged and the entity of that connection is still
\* deleted; a failure of delete_entity is logged and the loop goes on with
\* the connections that remain; each connection of the scan is dropped and
\* its entity passed to delete_entity; the reaper never exits.
C20_ReaperGoesOn ==
    [][/\ reaper'.pc # "exited"
       /\ (reaper.pc = "drop" /\ reaper' # reaper) =>
              LET c == Head(reaper.todo)
              IN  /\ reaper.conn_id = c
                  /\ c \notin connections'
                  /\ ~conn'[c].open
                  /\ c \notin connections =>
                         log' = [level |-> "warn", what |-> "drop_conn",
                                 conn |-> c]
                  /\ reaper'.pc = "delete"
                  /\ reaper'.todo = reaper.todo
       /\ (reaper.pc = "delete" /\ reaper' # reaper) =>
              LET c == Head(reaper.todo)
              IN  /\ wop'.op = "delete"
                  /\ wop'.e = conn[c].entity
                  /\ wop'.ret # "Ok" =>
                         log' = [level |-> "warn", what |-> "delete_entity",
                                 conn |-> c]
                  /\ reaper'.todo = Tail(reaper.todo)
                  /\ reaper'.pc = IF Tail(reaper.todo) = <<>> THEN "tick"
                                  ELSE "conn"
       /\ (reaper.pc = "conn" /\ reaper' # reaper) =>
              /\ reaper'.pc = "drop"
              /\ reaper'.todo = reaper.todo]_vars

\* One scan collected connections 1 and 2; connection 1 was torn down by its
\* own task in between, so drop_conn and delete_entity failed for it and
\* were logged; connection 2 was then dropped and its entity deleted.
C20_Witness ==
    /\ now = Expiry
    /\ Len(conn) = 2
    /\ log = [level |-> "warn", what |-> "delete_entity", conn |-> 1]
    /\ reaper.pc = "tick"
    /\ reaper.conn_id = 2
    /\ 2 \notin connections
    /\ conn[2].alive
    /\ wop.op = "delete"
    /\ wop.ret = "Ok"
    /\ wop.e = conn[2].entity

\* C12: an entity with KeepAlive and ConnectionWrapper is gone from the
\* store at most ReaperPeriod seconds after its last_sent became Timeout
\* seconds old: while it is in the store, last_sent is at most
\* Timeout + ReaperPeriod seconds old.
C12_ReapedInTime ==
    \A i \in Matching(component_storage, {"KeepAlive", "ConnectionWrapper"}) :
        now - component_storage["KeepAlive"][i].last_sent <=
            Secs(Timeout) + Secs(ReaperPeriod)

\* ------------------------------------------------------------------ systems runtime claims
\* C13: once kill_all_systems has returned, every system exits and
\* start_all_systems completes.
C13_KillTerminates == (killer.pc = "done") ~> start_all_systems_done

\* ------------------------------------------------------------------ status claims
\* C14: a StatusRequest that is handled with success puts exactly one
\* StatusResponse on the socket, whole, with packet id 0x00, version.name
\* "1.20.6", version.protocol the protocol version of the client's Handshake
\* and players.max config.max_players, and the connection stays in Status.
C14_StatusResponse ==
    [][(sconn.state = "Status" /\ sconn'.handled = sconn.handled + 1
            /\ sconn'.ret = "Ok") =>
          /\ Len(sconn'.socket) = Len(sconn.socket) + 1
          /\ LET r == sconn'.socket[Len(sconn'.socket)]
             IN  /\ r.packet_id = 0
                 /\ r.complete
                 /\ r.json.version.name = "1.20.6"
                 /\ sconn.protocol_version >= 0
                 /\ r.json.version.protocol = U32(sconn.protocol_version)
                 /\ r.json.players.max = config.max_players
          /\ sconn'.state = "Status"]_vars

\* ------------------------------------------------------------------ entity store claims, handles
\* No two live entities share an id; an id is in the free pool at most once
\* and only while no live entity has it.
HandlesDisjoint ==
    /\ \A a \in Live : \A b \in Live : a.id = b.id => a = b
    /\ \A i \in 1..Len(free_ids) : \A j \in 1..Len(free_ids) :
           free_ids[i] = free_ids[j] => i = j
    /\ \A i \in 1..Len(free_ids) : \A a \in Live : a.id # free_ids[i]

\* C23: over the operations on handles obtained from the allocator, the
\* allocator never returns the same (id, generation) twice, no two live
\* entities share an id, and an id is in the free pool at most once and
\* only while no live entity has it.
C23_HandleUniqueness ==
    [][OnlyIssuedFreed' =>
       /\ wop'.op = "create" => wop'.e \notin issued
       /\ HandlesDisjoint']_vars

\* An id has been freed and allocated again, and two entities are live.
C23_Witness ==
    /\ OnlyIssuedFreed
    /\ wop.op = "create"
    /\ wop.e.generation > 0
    /\ Cardinality(Live) = 2
    /\ deallocated # {}

\* ------------------------------------------------------------------ systems claims, restart
\* C21: a system whose run has ended with an unexpected failure is started
\* again: while shutdown is not requested, a failed system is eventually
\* running again.
C21_FailedRestarts ==
    \A s \in Systems :
        (sys[s].status = "failed" /\ killer.pc = "idle")
            ~> (sys[s].status = "running" \/ killer.pc # "idle")

\* ------------------------------------------------------------------ keep-alive claims, refresh
\* No entity with Player, KeepAlive and ConnectionWrapper has a last_sent
\* more than Timeout whole seconds old, and the receiver has collected no
\* connection.
NotExpired ==
    /\ \A i \in Matching(component_storage, KAColumns) :
           as_secs(now - component_storage["KeepAlive"][i].last_sent) <= Timeout
    /\ reaper.todo = <<>>

\* C24: with the sender on its interval and no contention, each round of
\* the sender sets last_sent of every entity with Player, KeepAlive and
\* ConnectionWrapper to the current instant, a send that succeeds or fails
\* changes no component, and so last_sent.elapsed() of such an entity never
\* exceeds Timeout seconds and the receiver never selects it.
C24_SenderKeepsAlive ==
    [][/\ sender.pc = "world" /\ sender'.pc # "world" =>
              \A i \in Matching(component_storage, KAColumns) :
                  component_storage'["KeepAlive"][i].last_sent = now
       /\ sender.pc = "send" /\ sender'.pc # "send" =>
              component_storage' = component_storage
       /\ NotExpired']_vars

\* A player has been through two rounds of the sender, a send has failed,
\* and the receiver has scanned Timeout + SenderPeriod seconds into the
\* run without selecting anyone.
C24_Witness ==
    /\ now >= Secs(Timeout + SenderPeriod)
    /\ reaper.pc = "tick"
    /\ reaper.next > now
    /\ reaper.todo = <<>>
    /\ log.what = "send_packet"
    /\ \E i \in Matching(component_storage, KAColumns) :
           /\ component_storage["KeepAlive"][i].data = MaxKeepAlive
           /\ component_storage["KeepAlive"][i].last_sent = Secs(Timeout)

\* ------------------------------------------------------------------ chunk store claims, persistence
\* A record exists at (dimension, x, z).
RecordExists(dimension, x, z) == Stored(dimension, x, z).tag = "Some"

\* C22: the chunk store never removes a chunk record: a record that exists
\* at (dimension, x, z) still exists after every step of insert_chunk,
\* update_chunk, get_chunk, chunk_exists and get_chunk_range, and a
\* chunk_exists or get_chunk on it whose closure runs while the record
\* exists returns true or Some.
C22_RecordsNeverRemoved ==
    [][\A d \in Dims, x \in Coords, z \in Coords :
           RecordExists(d, x, z) =>
               /\ RecordExists(d, x, z)'
               /\ \A t \in Tasks :
                      /\ task[t].pc = "spawned"
                      /\ task[t].dim = d /\ task[t].x = x /\ task[t].z = z
                      => /\ Done(t, "chunk_exists")' =>
                                task'[t].ret = OkBool(TRUE)
                         /\ Done(t, "get_chunk")' =>
                                task'[t].ret.tag = "Some"]_vars

\* update_chunk has returned true on a record that existed, the record is
\* there, and its key had been written before.
C22_Witness ==
    \E t \in Tasks :
        /\ Done(t, "update_chunk")
        /\ task[t].ret = OkBool(TRUE)
        /\ nwrites = 2
        /\ RecordExists(task[t].dim, task[t].x, task[t].z)

====
